---- MODULE Spec2Model ----
(***************************************************************************)
(* Model of generator.py (ephemewall): the daily sun-event series, the     *)
(* data-dependent layout, the coordinate mapping and the band paths.       *)
(*                                                                         *)
(* Instants are whole seconds on the UTC time line.  A timezone-aware      *)
(* datetime is a wall-clock reading with the UTC offset of its tzinfo.     *)
(* Pixel coordinates are exact rationals: x in tenths of a pixel, y in     *)
(* 1/3600 of a pixel; '%.2f' rounds them to hundredths of a pixel.         *)
(***************************************************************************)
EXTENDS Integers, Sequences, FiniteSets, TLC

VARIABLES
  cfg,               \* params: start-date, end-date (naive seconds), tz, sky
  pc,                \* position of main / get_sun_events
  observer_horizon,  \* observer.horizon, in degrees
  observer_date,     \* observer.date
  current_date,      \* get_sun_events: current_date (UTC instant)
  events,            \* get_sun_events: the SunEvents instance being filled
  result,            \* get_sun_events: result
  calc_params,       \* the module-level calc_params dict
  paths,             \* the paths added to the drawing, in order
  file_written,      \* drawing.save() has run
  oracle_queries     \* number of oracle queries made so far

vars == <<cfg, pc, observer_horizon, observer_date, current_date, events,
          result, calc_params, paths, file_written, oracle_queries>>

----------------------------------------------------------------------------
(* Program constants *)

Day == 86400
Hour == 3600
Noon == 12
vscale == 30
hscale_x10 == 25
padding_top == 30
padding_left == 30
padding_bottom == 30
padding_right == 30

(* Bounds of the model *)
StartDay == 1
MaxEndDay == 3

ClockHours == {0, 12}

----------------------------------------------------------------------------
(* Timezones: the offset pytz attaches with replace(tzinfo=...) (the zone's *)
(* first, local-mean-time entry) and the offset astimezone() gives at an    *)
(* instant (standard offset, one hour more inside the DST interval).        *)

Zones ==
  { [lmt |-> 0,     std |-> 0,     dstFrom |-> 0, dstTo |-> 0],
    [lmt |-> 36300, std |-> 36000, dstFrom |-> -10 * Day,
                                   dstTo |-> 2 * Day + 16 * Hour] }

UtcOffset(tz, t) ==
  tz.std + (IF tz.dstFrom <= t /\ t < tz.dstTo THEN Hour ELSE 0)

\* A timezone-aware datetime: its wall-clock reading (seconds) and the
\* UTC offset of its tzinfo.  Comparison and subtraction of aware datetimes
\* act on the instants.
Instant(d) == d.wall - d.off
Utc(t) == [wall |-> t, off |-> 0]

\* datetime.replace(tzinfo=timezone) on a naive datetime
ReplaceTzinfo(naive, tz) == [wall |-> naive, off |-> tz.lmt]

\* datetime.astimezone(tz)
Astimezone(d, tz) ==
  LET t == Instant(d)
  IN  [wall |-> t + UtcOffset(tz, t), off |-> UtcOffset(tz, t)]

\* Mutant of StartOfDay: the time of day is kept
StartOfDay_kept(d) == d

\* datetime.replace(hour=0, minute=0, second=0, microsecond=0)
StartOfDay(d) == [d EXCEPT !.wall = d.wall - (d.wall % Day)]

\* The wall-clock fields of a datetime
DayOf(d) == d.wall \div Day
TimeOf(d) == d.wall % Day
HourOf(d) == TimeOf(d) \div Hour

\* timedelta.days of a - b
TimedeltaDays(a, b) == (Instant(a) - Instant(b)) \div Day

----------------------------------------------------------------------------
(* The ephemeris oracle.  The sun's altitude is a fixed function of time:   *)
(* on solar day j the antitransit is at j*Day + anti, and the sun crosses   *)
(* horizon number k (0: 0 deg upper limb, 1: -6, 2: -12, 3: -18 deg centre) *)
(* downwards HalfNight - k*twi before it and upwards the same time after    *)
(* it.  A horizon the sun does not reach that night makes the query raise.  *)

Skies ==
  { \* mid-latitude, solar midnight slightly before clock midnight
    [anti |-> -300,  half |-> 17407, twi |-> 1811, drift |-> 61],
    \* solar midnight well after clock midnight, long twilight
    [anti |-> 5400,  half |-> 18000, twi |-> 4800, drift |-> -47],
    \* astronomical darkness never reached
    [anti |-> 1200,  half |-> 10800, twi |-> 4800, drift |-> 0],
    \* the sun never sets
    [anti |-> 0,     half |-> 0,     twi |-> 1800, drift |-> 0] }

\* A location: its timezone and the sky seen from it (anti is given
\* relative to the zone's standard midnight)
Locations == { [tz |-> z, sky |-> [s EXCEPT !.anti = s.anti - z.std]] :
               z \in Zones, s \in Skies }

Window == (StartDay - 3) .. (MaxEndDay + 3)

HalfNight(sky, j) == sky.half + j * sky.drift
AntiAt(sky, j) == j * Day + sky.anti
SetAt(sky, j, k) == AntiAt(sky, j) - HalfNight(sky, j) + k * sky.twi
RiseAt(sky, j, k) == AntiAt(sky, j) + HalfNight(sky, j) - k * sky.twi
Crosses(sky, j, k) == HalfNight(sky, j) > k * sky.twi

MaxOf(S) == CHOOSE x \in S : \A y \in S : y <= x
MinOf(S) == CHOOSE x \in S : \A y \in S : x <= y

previous_setting(sky, t, k) ==
  LET j == MaxOf({i \in Window : SetAt(sky, i, k) < t})
  IN  [raised |-> ~Crosses(sky, j, k), at |-> SetAt(sky, j, k)]

next_rising(sky, t, k) ==
  LET j == MinOf({i \in Window : RiseAt(sky, i, k) > t})
  IN  [raised |-> ~Crosses(sky, j, k), at |-> RiseAt(sky, j, k)]

previous_antitransit(sky, t) ==
  AntiAt(sky, MaxOf({i \in Window : AntiAt(sky, i) < t}))

next_antitransit(sky, t) ==
  AntiAt(sky, MinOf({i \in Window : AntiAt(sky, i) > t}))

\* The horizon strings '0', '-6', '-12', '-18' as degrees, and the number
\* of the crossing each selects
HorizonIndex(h) == (0 - h) \div 6

----------------------------------------------------------------------------
(* params after main has attached the timezone *)

start_date == ReplaceTzinfo(cfg.start, cfg.tz)
end_date == ReplaceTzinfo(cfg.end, cfg.tz)

\* localize(d): the oracle's UTC instant as a datetime of the chart's zone
localize(t) == Astimezone(Utc(t), cfg.tz)

\* Mutant of get_set_rise: the pair is returned as (rising, setting)
get_set_rise_swapped(original_horizon, date, sky, horizon) ==
  LET k == HorizonIndex(horizon)
      s == previous_setting(sky, date, k)
      r == next_rising(sky, date, k)
  IN  IF s.raised
        THEN [raised |-> TRUE, queries |-> 1, horizon |-> horizon,
              set |-> 0, rise |-> 0]
      ELSE IF r.raised
        THEN [raised |-> TRUE, queries |-> 2, horizon |-> horizon,
              set |-> 0, rise |-> 0]
      ELSE [raised |-> FALSE, queries |-> 2, horizon |-> original_horizon,
            set |-> r.at, rise |-> s.at]

\* get_set_rise(observer, sun, horizon, use_center): the pair (previous
\* setting, next rising), the number of queries made, and observer.horizon
\* as the call leaves it.  use_center selects the disc reference point and
\* is fixed by the horizon in every call of the program.
get_set_rise(original_horizon, date, sky, horizon) ==
  LET k == HorizonIndex(horizon)
      s == previous_setting(sky, date, k)
      r == next_rising(sky, date, k)
  IN  IF s.raised
        THEN [raised |-> TRUE, queries |-> 1, horizon |-> horizon,
              set |-> 0, rise |-> 0]
      ELSE IF r.raised
        THEN [raised |-> TRUE, queries |-> 2, horizon |-> horizon,
              set |-> 0, rise |-> 0]
      ELSE [raised |-> FALSE, queries |-> 2, horizon |-> original_horizon,
            set |-> s.at, rise |-> r.at]

Abs(n) == IF n < 0 THEN 0 - n ELSE n

\* Mutant of NearestAntitransit: the key is the signed difference
NearestAntitransit_signed(date, previous, next) ==
  IF date - next < date - previous THEN next ELSE previous

\* min(previous, next, key = |current_date - x|); min keeps the first of
\* two equal keys
NearestAntitransit(date, previous, next) ==
  IF Abs(date - next) < Abs(date - previous) THEN next ELSE previous

----------------------------------------------------------------------------
(* get_sun_events *)

StageHorizon(stage) ==
  CASE stage = "set_rise" -> 0
    [] stage = "civil"    -> -6
    [] stage = "nautical" -> -12
    [] stage = "astro"    -> -18

StagePm(stage) ==
  CASE stage = "set_rise" -> "set"
    [] stage = "civil"    -> "civil_twilight_pm"
    [] stage = "nautical" -> "nautical_twilight_pm"
    [] stage = "astro"    -> "astro_twilight_pm"

StageAm(stage) ==
  CASE stage = "set_rise" -> "rise"
    [] stage = "civil"    -> "civil_twilight_am"
    [] stage = "nautical" -> "nautical_twilight_am"
    [] stage = "astro"    -> "astro_twilight_am"

StageNext(stage) ==
  CASE stage = "set_rise" -> "antitransit"
    [] stage = "civil"    -> "nautical"
    [] stage = "nautical" -> "astro"
    [] stage = "astro"    -> "loop"

Init ==
  /\ cfg \in { [start |-> StartDay * Day + sh * Hour,
                end |-> ed * Day + eh * Hour,
                tz |-> loc.tz, sky |-> loc.sky] :
               sh \in ClockHours, ed \in StartDay .. MaxEndDay,
               eh \in ClockHours, loc \in Locations }
  /\ pc = "main"
  /\ observer_horizon = 0
  /\ observer_date = 0
  /\ current_date = Utc(0)
  /\ events = <<>>
  /\ result = <<>>
  /\ calc_params = <<>>
  /\ paths = <<>>
  /\ file_written = FALSE
  /\ oracle_queries = 0

\* main up to the call, and get_sun_events up to its loop
EnterSunEvents ==
  /\ pc = "main"
  /\ current_date' = Astimezone(StartOfDay(start_date), [lmt |-> 0, std |-> 0,
                                                         dstFrom |-> 0, dstTo |-> 0])
  /\ pc' = "loop"
  /\ UNCHANGED <<cfg, observer_horizon, observer_date, events, result,
                 calc_params, paths, file_written, oracle_queries>>

\* the loop test, and the head of the body when it passes
LoopTest ==
  /\ pc = "loop"
  /\ IF Instant(current_date) < Instant(end_date)
       THEN /\ observer_date' = Instant(current_date)
            /\ events' = [date |-> current_date]
            /\ pc' = "set_rise"
       ELSE /\ pc' = "layout"
            /\ UNCHANGED <<observer_date, events>>
  /\ UNCHANGED <<cfg, observer_horizon, current_date, result, calc_params,
                 paths, file_written, oracle_queries>>

\* one call of get_set_rise and the assignment of its localized results;
\* after the last one the record is appended and the date advanced
SetRiseStep ==
  /\ pc \in {"set_rise", "civil", "nautical", "astro"}
  /\ LET c == get_set_rise(observer_horizon, observer_date, cfg.sky,
                           StageHorizon(pc))
         e == events @@ (StagePm(pc) :> localize(c.set))
                     @@ (StageAm(pc) :> localize(c.rise))
     IN  /\ observer_horizon' = c.horizon
         /\ oracle_queries' = oracle_queries + c.queries
         /\ IF c.raised
              THEN /\ pc' = "aborted"
                   /\ UNCHANGED <<events, result, current_date>>
              ELSE /\ events' = e
                   /\ pc' = StageNext(pc)
                   /\ IF pc = "astro"
                        THEN /\ result' = Append(result, e)
                             /\ current_date' =
                                  [current_date EXCEPT !.wall = @ + Day]
                        ELSE UNCHANGED <<result, current_date>>
  /\ UNCHANGED <<cfg, observer_date, calc_params, paths, file_written>>

\* the antitransit nearer to current_date
AntitransitStep ==
  /\ pc = "antitransit"
  /\ events' = events @@ ("antitransit" :> localize(
        NearestAntitransit(Instant(current_date),
                           previous_antitransit(cfg.sky, observer_date),
                           next_antitransit(cfg.sky, observer_date))))
  /\ oracle_queries' = oracle_queries + 2
  /\ pc' = "civil"
  /\ UNCHANGED <<cfg, observer_horizon, observer_date, current_date, result,
                 calc_params, paths, file_written>>

----------------------------------------------------------------------------
(* Layout and coordinate mapping *)

\* hours_since_midnight(date), in seconds
hours_since_midnight(d) == TimeOf(d)

\* min(seq, key): the first element with the least key
RECURSIVE ArgMinFrom(_, _, _, _)
ArgMinFrom(seq, field, i, best) ==
  IF i > Len(seq) THEN best
  ELSE ArgMinFrom(seq, field, i + 1,
         IF TimeOf(seq[i][field]) < TimeOf(seq[best][field]) THEN i ELSE best)

\* max(seq, key): the first element with the greatest key
RECURSIVE ArgMaxFrom(_, _, _, _)
ArgMaxFrom(seq, field, i, best) ==
  IF i > Len(seq) THEN best
  ELSE ArgMaxFrom(seq, field, i + 1,
         IF TimeOf(seq[i][field]) > TimeOf(seq[best][field]) THEN i ELSE best)

\* calc_params as main computes it: times in seconds, canvas-width in
\* tenths of a pixel, canvas-height in 1/3600 pixel
Layout(series) ==
  LET earliest == series[ArgMinFrom(series, "set", 2, 1)].set
      latest == series[ArgMaxFrom(series, "rise", 2, 1)].rise
      es == Day - hours_since_midnight(earliest)
      lr == hours_since_midnight(latest)
  IN  [earliest_set |-> es,
       latest_rise |-> lr,
       canvas_width |-> TimedeltaDays(end_date, start_date) * hscale_x10
                        + (padding_left + padding_right) * 10,
       canvas_height |-> (es + lr) * vscale
                         + (padding_top + padding_bottom) * Hour]

\* (date - params['start-date']).days
day_diff(d) == TimedeltaDays(d, start_date)

\* date_to_point: x in tenths of a pixel, y in 1/3600 pixel
date_to_point(d, latest_rise) ==
  LET time_diff == latest_rise - hours_since_midnight(d)
      wrap == HourOf(d) >= Noon
      dd == IF wrap THEN day_diff(d) + 1 ELSE day_diff(d)
      td == IF wrap THEN time_diff + Day ELSE time_diff
  IN  [x |-> dd * hscale_x10 + padding_left * 10,
       y |-> td * vscale + padding_top * Hour]

\* num/den rounded to the nearest integer, halves to even
RoundHalfEven(num, den) ==
  LET q == num \div den
      r == num % den
  IN  IF 2 * r < den THEN q
      ELSE IF 2 * r > den THEN q + 1
      ELSE IF q % 2 = 0 THEN q ELSE q + 1

\* '%.2f %.2f ' % point: both coordinates in hundredths of a pixel
Format(pt) ==
  [cmd |-> "", x |-> pt.x * 10, y |-> RoundHalfEven(pt.y, Hour \div 100)]

\* a path command pushed as such ('M ', 'z')
Command(c) == [cmd |-> c, x |-> 0, y |-> 0]

\* reversed(events)
Reversed(seq) == [i \in 1 .. Len(seq) |-> seq[Len(seq) + 1 - i]]

\* the pushes of one loop of get_sun_event_path
RECURSIVE PushPoints(_, _, _, _)
PushPoints(path, seq, key, latest_rise) ==
  IF seq = <<>> THEN path
  ELSE PushPoints(Append(path, Format(date_to_point(Head(seq)[key], latest_rise))),
                  Tail(seq), key, latest_rise)

\* Mutant of get_sun_event_path: the second loop runs forward too
get_sun_event_path_forward(series, key1, key2, latest_rise) ==
  LET forward == PushPoints(<<Command("M")>>, series, key1, latest_rise)
      back == PushPoints(forward, series, key2, latest_rise)
  IN  Append(back, Command("z"))

\* get_sun_event_path(events, key1, key2): the pushed path elements
get_sun_event_path(series, key1, key2, latest_rise) ==
  LET forward == PushPoints(<<Command("M")>>, series, key1, latest_rise)
      back == PushPoints(forward, Reversed(series), key2, latest_rise)
  IN  Append(back, Command("z"))

\* the four bands main draws, in order
Bands ==
  << [key1 |-> "rise",                 key2 |-> "set",
      fill |-> "civil-fill"],
     [key1 |-> "civil_twilight_am",    key2 |-> "civil_twilight_pm",
      fill |-> "nautical-fill"],
     [key1 |-> "nautical_twilight_am", key2 |-> "nautical_twilight_pm",
      fill |-> "astro-fill"],
     [key1 |-> "astro_twilight_am",    key2 |-> "astro_twilight_pm",
      fill |-> "night-fill"] >>

\* main: the layout parameters; min() of an empty series raises
ComputeLayout ==
  /\ pc = "layout"
  /\ IF result = <<>>
       THEN /\ pc' = "aborted"
            /\ UNCHANGED calc_params
       ELSE /\ calc_params' = Layout(result)
            /\ pc' = "paths"
  /\ UNCHANGED <<cfg, observer_horizon, observer_date, current_date, events,
                 result, paths, file_written, oracle_queries>>

\* main: the next band path is built and added to the drawing
AddPath ==
  /\ pc = "paths"
  /\ LET b == Bands[Len(paths) + 1]
     IN  paths' = Append(paths,
           [d |-> get_sun_event_path(result, b.key1, b.key2,
                                     calc_params.latest_rise),
            fill |-> b.fill])
  /\ pc' = IF Len(paths) + 1 = Len(Bands) THEN "save" ELSE "paths"
  /\ UNCHANGED <<cfg, observer_horizon, observer_date, current_date, events,
                 result, calc_params, file_written, oracle_queries>>

\* Mutant of Save: the drawing is saved as soon as it exists, before the
\* paths are complete
Save_early ==
  /\ pc \in {"paths", "save"}
  /\ file_written' = TRUE
  /\ pc' = "done"
  /\ UNCHANGED <<cfg, observer_horizon, observer_date, current_date, events,
                 result, calc_params, paths, oracle_queries>>

\* main: drawing.save()
Save ==
  /\ pc = "save"
  /\ file_written' = TRUE
  /\ pc' = "done"
  /\ UNCHANGED <<cfg, observer_horizon, observer_date, current_date, events,
                 result, calc_params, paths, oracle_queries>>

Next ==
  \/ EnterSunEvents
  \/ LoopTest
  \/ SetRiseStep
  \/ AntitransitStep
  \/ ComputeLayout
  \/ AddPath
  \/ Save

Spec == Init /\ [][Next]_vars

----------------------------------------------------------------------------
(* Properties *)

PmFields == {"set", "civil_twilight_pm", "nautical_twilight_pm",
             "astro_twilight_pm"}
AmFields == {"rise", "civil_twilight_am", "nautical_twilight_am",
             "astro_twilight_am"}

Records == {result[i] : i \in 1 .. Len(result)}

\* the loop of get_sun_events has been left normally
SeriesReturned == pc \in {"layout", "paths", "save", "done"}

\* the datetimes date_to_point is applied to
MappedDates ==
  IF pc \in {"paths", "save", "done"}
    THEN {r[f] : r \in Records, f \in PmFields \cup AmFields}
    ELSE {}

\* the day instant lies between astronomical dusk and astronomical dawn of
\* one night
InAstronomicalNight(t) ==
  \E j \in Window : /\ Crosses(cfg.sky, j, 3)
                     /\ SetAt(cfg.sky, j, 3) < t
                     /\ t < RiseAt(cfg.sky, j, 3)

\* number of day starts midnight(start_date) + k days, k >= 0, before end_date
NumDayStarts ==
  LET span == cfg.end - (cfg.start - (cfg.start % Day))
  IN  IF span <= 0 THEN 0 ELSE (span + Day - 1) \div Day

\* C1 as stated: in every record built, astro_twilight_am <=
\* nautical_twilight_am <= civil_twilight_am <= rise <= set <=
\* civil_twilight_pm <= nautical_twilight_pm <= astro_twilight_pm.
C1_OrderingAsStated ==
  \A r \in Records :
    /\ Instant(r.astro_twilight_am) <= Instant(r.nautical_twilight_am)
    /\ Instant(r.nautical_twilight_am) <= Instant(r.civil_twilight_am)
    /\ Instant(r.civil_twilight_am) <= Instant(r.rise)
    /\ Instant(r.rise) <= Instant(r.set)
    /\ Instant(r.set) <= Instant(r.civil_twilight_pm)
    /\ Instant(r.civil_twilight_pm) <= Instant(r.nautical_twilight_pm)
    /\ Instant(r.nautical_twilight_pm) <= Instant(r.astro_twilight_pm)

\* C1 amended: in every record built, each evening field (set and the three
\* twilight_pm) is before the record's date and each morning field (rise
\* and the three twilight_am) is after it, so set < rise; and when the date
\* lies in astronomical night, set <= civil_pm <= nautical_pm <= astro_pm <
\* date < astro_am <= nautical_am <= civil_am <= rise.
C1_EveningBeforeMorning ==
  \A r \in Records :
    /\ \A f \in PmFields : Instant(r[f]) < Instant(r.date)
    /\ \A f \in AmFields : Instant(r.date) < Instant(r[f])
    /\ InAstronomicalNight(Instant(r.date)) =>
         /\ Instant(r.set) <= Instant(r.civil_twilight_pm)
         /\ Instant(r.civil_twilight_pm) <= Instant(r.nautical_twilight_pm)
         /\ Instant(r.nautical_twilight_pm) <= Instant(r.astro_twilight_pm)
         /\ Instant(r.astro_twilight_am) <= Instant(r.nautical_twilight_am)
         /\ Instant(r.nautical_twilight_am) <= Instant(r.civil_twilight_am)
         /\ Instant(r.civil_twilight_am) <= Instant(r.rise)

C1_Witness ==
  \E r \in Records : /\ InAstronomicalNight(Instant(r.date))
                      /\ Instant(r.set) < Instant(r.rise)

\* C2 as stated: the returned series has strictly increasing dates and its
\* length is (end_date - start_date).days.
C2_LengthAsStated ==
  /\ \A i \in 1 .. Len(result) - 1 :
       Instant(result[i].date) < Instant(result[i + 1].date)
  /\ SeriesReturned => Len(result) = TimedeltaDays(end_date, start_date)

\* C2 amended: the dates of the series are strictly increasing, one day
\* apart, and the returned series has one record for every day start
\* midnight(start_date) + k days (k >= 0) that is before end_date.
C2_SeriesLength ==
  /\ \A i \in 1 .. Len(result) - 1 :
       /\ Instant(result[i].date) < Instant(result[i + 1].date)
       /\ Instant(result[i + 1].date) = Instant(result[i].date) + Day
  /\ SeriesReturned => Len(result) = NumDayStarts

C2_Witness ==
  /\ pc = "done"
  /\ Len(result) >= 2
  /\ Len(result) # TimedeltaDays(end_date, start_date)

\* C3: no call of get_set_rise changes observer.horizon, whether it returns
\* or raises (no other step of the program assigns it).
C3_HorizonRestored == [][observer_horizon' = observer_horizon]_vars

\* C4: with end_date <= start_date the run is rejected before any record is
\* computed: no oracle query, no record, no chart.
C4_InvertedRangeRejected ==
  cfg.end <= cfg.start =>
    /\ oracle_queries = 0
    /\ result = <<>>
    /\ DOMAIN events = {}
    /\ pc \notin {"paths", "save", "done"}

\* C5: the file is written only at the end of a run in which the whole
\* series, the layout and all four paths were computed, and never in a run
\* that aborted.
C5_SaveOnlyAfterEverything ==
  /\ file_written =>
       /\ pc = "done"
       /\ Len(result) = NumDayStarts
       /\ Len(result) > 0
       /\ calc_params = Layout(result)
       /\ Len(paths) = Len(Bands)
  /\ pc = "aborted" => ~file_written

C5_Witness == file_written /\ Len(paths) = 4 /\ Len(result) >= 2

\* C6: the stored antitransit is one of the oracle's two candidates for the
\* record's date and neither candidate is nearer to the date.
C6_NearestAntitransit ==
  \A r \in Records :
    LET d == Instant(r.date)
        p == previous_antitransit(cfg.sky, d)
        n == next_antitransit(cfg.sky, d)
        a == Instant(r.antitransit)
    IN  /\ a \in {p, n}
        /\ Abs(d - a) <= Abs(d - p)
        /\ Abs(d - a) <= Abs(d - n)

C6_Witness ==
  \E r \in Records :
    LET d == Instant(r.date)
    IN  /\ Instant(r.antitransit) = previous_antitransit(cfg.sky, d)
        /\ Abs(d - Instant(r.antitransit))
             < Abs(d - next_antitransit(cfg.sky, d))

\* C7: a mapped datetime with hour >= 12 lies exactly one day column to the
\* right of the mapped datetimes of the same calendar day with hour < 12,
\* and its time_diff exceeds 24 hours minus its hours since midnight.
C7_Wraparound ==
  \A d1, d2 \in MappedDates :
    (DayOf(d1) = DayOf(d2) /\ HourOf(d1) < Noon /\ HourOf(d2) >= Noon) =>
      LET p1 == date_to_point(d1, calc_params.latest_rise)
          p2 == date_to_point(d2, calc_params.latest_rise)
      IN  /\ p2.x = p1.x + hscale_x10
          /\ p2.y - padding_top * Hour
               > (Day - hours_since_midnight(d2)) * vscale

\* C9: before the wraparound adjustment, day_diff is the datetime's
\* calendar day minus start_date's calendar day.
C9_DayDiffIsCalendarDifference ==
  \A d \in MappedDates : day_diff(d) = DayOf(d) - DayOf(start_date)

\* the points of a path as drawn: the pushed coordinates, and for the
\* closing 'z' the first of them again
Vertices(d) ==
  LET c == SelectSeq(d, LAMBDA e : e.cmd = "")
  IN  IF c # <<>> /\ d[Len(d)].cmd = "z" THEN Append(c, c[1]) ELSE c

\* C8: every path is 'M', the mapped key1 point of each record in series
\* order, the mapped key2 point of each record in reverse order, and 'z':
\* 2 * len(series) + 1 points, the last being the first again.
C8_BandClosure ==
  \A b \in 1 .. Len(paths) :
    LET d == paths[b].d
        n == Len(result)
        lr == calc_params.latest_rise
    IN  /\ Len(d) = 2 * n + 2
        /\ d[1] = Command("M")
        /\ d[2 * n + 2] = Command("z")
        /\ \A i \in 1 .. n :
             /\ d[1 + i] = Format(date_to_point(result[i][Bands[b].key1], lr))
             /\ d[1 + n + i] =
                  Format(date_to_point(result[n + 1 - i][Bands[b].key2], lr))
        /\ Len(Vertices(d)) = 2 * n + 1
        /\ Vertices(d)[1] = Vertices(d)[2 * n + 1]

C8_Witness ==
  /\ Len(paths) = 4
  /\ Len(result) >= 2
  /\ paths[1].d[2] # paths[1].d[3]

\* C10: every point of every band path lies inside the padded canvas.
C10_PointsInsideCanvas ==
  \A d \in MappedDates :
    LET p == date_to_point(d, calc_params.latest_rise)
    IN  /\ padding_left * 10 <= p.x
        /\ p.x <= calc_params.canvas_width - padding_right * 10
        /\ padding_top * Hour <= p.y
        /\ p.y <= calc_params.canvas_height - padding_bottom * Hour

====
